---- MODULE Spec2Model ----
(***************************************************************************)
(* Client-side synchronisation of the trading dashboard: the TanStack      *)
(* Query cache shared by the dashboards (wallet, holdings, portfolio,      *)
(* transactions, market listing), the mutations that invalidate it, the    *)
(* 30 s market poll and the online/offline flag that gates it.             *)
(*                                                                         *)
(* Cached values are abstracted to their relation to the invalidations of  *)
(* their key: "good" is a value fetched after the last invalidation (or    *)
(* still marked invalidated), "bad" is a value fetched by a request that   *)
(* was sent before the last invalidation and stored as if it were fresh.   *)
(*                                                                         *)
(* The cache is TanStack Query's QueryClient; its behaviour (joining a     *)
(* fetch in flight, cancelRefetch, retry, pausing while offline) is        *)
(* modelled at the useQuery / useMutation / invalidateQueries call sites.  *)
(* Two queries no mutation invalidates and nothing polls are left out:     *)
(* ['crypto-status'] of SystemStatus and ['cryptocurrencies', {limit: 50}] *)
(* of TradingDashboard.                                                    *)
(***************************************************************************)
EXTENDS Integers, FiniteSets, Sequences, TLC

\* ---------------------------------------------------------------- bounds
MaxMut == 1          \* mutations in flight at the same time
MaxOrphans == 1      \* cancelled requests still on the network
MaxAged == 1         \* cache entries older than staleTime at the same time

\* ------------------------------------------------------ program constants
DefaultRetry == 3            \* App.tsx: queries.retry
PollIntervalMs == 30000      \* CryptocurrencyDashboard.tsx: refetchInterval
MutationRetry == 0           \* useMutation is given no retry option

None == "none"

\* ------------------------------------------------------------ query keys
\* ['wallet'], ['holdings'], ['portfolio'], ['transactions', {...}] and
\* ['cryptocurrencies', {sortBy, order, searchTerm}] for two parameter sets.
MarketParams == {1, 2}
MarketKey(p) == IF p = 1 THEN "market1" ELSE "market2"
MarketKeys == {MarketKey(p) : p \in MarketParams}

\* ['transactions', {limit, transaction_type}] for the history's filters.
TxFilters == {"", "BUY"}
TxKey(f) == IF f = "" THEN "transactions" ELSE "transactionsBuy"
TxKeys == {TxKey(f) : f \in TxFilters}

Keys == {"wallet", "holdings", "portfolio"} \cup TxKeys \cup MarketKeys

\* Variant: a key matches only when it is the resource name alone, so the
\* transactions key with a filter is not matched.
ResourceExact(k) ==
    IF k \in MarketKeys THEN "cryptocurrencies" ELSE k

\* The resource name a key starts with: invalidateQueries({queryKey: [r]})
\* matches every key whose first element is r.
Resource(k) ==
    IF k \in MarketKeys THEN "cryptocurrencies"
    ELSE IF k \in TxKeys THEN "transactions"
    ELSE k

Views == {"dashboard", "trading", "portfolio", "risk"}
Ops == {"buy", "sell", "createWallet", "updatePortfolio"}
ErrKinds == {"network", "401", "4xx", "5xx"}

VARIABLES
    session,      \* "loading": the start-up spinner; "login": LoginForm shown;
                  \* "app": MainLayout mounted;
                  \* "unloading": the interceptor has started the navigation to /login
    authToken,    \* localStorage auth_token present
    currentView,  \* MainLayout.currentView
    showWelcome,  \* CryptocurrencyDashboard.showWelcome
    hasVisited,   \* localStorage hasVisitedDashboard
    marketParam,  \* the dashboard's active {sortBy, order, searchTerm}
    isOnline,     \* CryptocurrencyDashboard.isOnline / navigator.onLine
    cache,        \* the QueryClient's query cache
    orphans,      \* keys of requests cancelled by a refetch whose HTTP call is still running
    mutations,    \* mutations in flight
    message,      \* TradingForm.message: "" (none), "ok" (the server's success
                  \* message), "detail" (the server's error detail) or
                  \* "failed" (the form's own 'Buy order failed' text)
    holdings,     \* HoldingsTable's holdings prop: the rows of the holdings response
    rows,         \* the table rows HoldingsTable renders
    focused,      \* the page is visible (the query library's focusManager)
    navigatorOnLine, \* navigator.onLine: the browser's own connectivity flag
    tradeType,    \* TradingForm.tradeType
    amount,       \* TradingForm.amount: the text of the amount input
    isLoading,    \* TradingForm.isLoading
    selectedSymbol, \* TradingDashboard.selectedSymbol
    tradeRequest, \* the tradeRequest of the submit the form is waiting for, if any
    filter,       \* TransactionHistory.filter: "" (all types) or "BUY"
    user,         \* AuthContext.user is set (isAuthenticated)
    authIsLoading, \* AuthContext.isLoading
    authStep,     \* the request the AuthContext function in progress waits for
    loginIsLoading, \* LoginForm.isLoading
    loginError,   \* LoginForm.error: "" (none), "detail" or "default"
    watchlist,    \* CryptocurrencyDashboard.watchlist, saved as cryptoWatchlist
    showOnlyWatchlist, \* CryptocurrencyDashboard.showOnlyWatchlist
    toastId,      \* the module-level counter of useToast.ts
    toasts        \* the toasts list of each useToast() instance

vars == <<session, authToken, currentView, showWelcome, hasVisited,
          marketParam, isOnline, cache, orphans, mutations, message,
          holdings, rows, focused, navigatorOnLine,
          tradeType, amount, isLoading, selectedSymbol, tradeRequest, filter,
          user, authIsLoading, authStep, loginIsLoading, loginError,
          watchlist, showOnlyWatchlist, toastId, toasts>>

\* ------------------------------------------------------------ cache entry
\* data    cached value: None, "good" or "bad"
\* inv     state.isInvalidated
\* aged    staleTime has elapsed since dataUpdatedAt
\* st      fetchStatus
\* fails   fetchFailureCount of the running fetch
\* calls   invocations of the queryFn made by the running fetch
\* joined  a second caller was handed the promise of the running fetch
\* err     state.error is set
\* preInv  the key was invalidated after the request in flight was sent
\* poll    the running fetch was started by the refetch interval
\* An entry equal to Absent stands for a key with no Query in the cache.
Absent == [data |-> None, inv |-> FALSE, aged |-> FALSE, st |-> "idle",
           fails |-> 0, calls |-> 0, joined |-> FALSE, err |-> FALSE,
           preInv |-> FALSE, poll |-> FALSE]

\* Variant: no call site overrides the default retry.
RetryOfDefault(k) == DefaultRetry

\* retry option of the useQuery call sites of a key
RetryOf(k) == IF k \in {"wallet", "holdings", "portfolio"} THEN 0 ELSE DefaultRetry

\* Variant: refetchInterval: 30000 whatever the connectivity.
RefetchIntervalUngated(online) == PollIntervalMs

\* refetchInterval: isOnline ? 30000 : false   (0 stands for false)
RefetchInterval(online) == IF online THEN PollIntervalMs ELSE 0

\* Variant: elapsed time never makes an entry stale (staleTime: Infinity).
IsStaleNoExpiry(e) == e.data = None \/ e.inv

\* isStale(): no data, invalidated, or older than staleTime
IsStale(e) == e.data = None \/ e.inv \/ e.aged

\* useQuery's isLoading: no data yet and no error
IsLoading(e) == e.data = None /\ ~e.err

\* Query.fetch when idle: dispatch 'fetch'; the retryer runs the queryFn at
\* once when online and pauses otherwise (networkMode 'online').
StartFetch(e, online) ==
    [e EXCEPT !.st = IF online THEN "fetching" ELSE "paused",
              !.fails = 0,
              !.calls = IF online THEN 1 ELSE 0,
              !.joined = FALSE,
              !.err = IF e.data = None THEN FALSE ELSE e.err,
              !.preInv = FALSE,
              !.poll = FALSE]

\* Variant: a mounting observer runs the queryFn again although a fetch of
\* the key is in flight.
MountKeyNoDedup(e, online) ==
    IF e.st # "idle" THEN [e EXCEPT !.joined = TRUE, !.calls = @ + 1]
    ELSE IF e.data = None \/ e.inv \/ e.aged THEN StartFetch(e, online)
    ELSE e

\* Query.fetch from a mounting observer: an in-flight fetch is joined
\* (the existing promise is returned), otherwise a stale entry is fetched.
MountKey(e, online) ==
    IF e.st # "idle" THEN [e EXCEPT !.joined = TRUE]
    ELSE IF IsStale(e) THEN StartFetch(e, online)
    ELSE e

\* Query.fetch with cancelRefetch: true (refetch(), invalidateQueries): a
\* running fetch is cancelled only when the query already has data.
Refetch(e, online) ==
    IF e.st # "idle" /\ e.data = None THEN e
    ELSE StartFetch(e, online)

\* The request a cancelling refetch leaves behind on the network.
Cancelled(c, k) ==
    IF c[k].st = "fetching" /\ c[k].data # None THEN {k} ELSE {}

\* The result of the queryFn is written to the entry (setData).
Applied(e) ==
    [e EXCEPT !.data = IF e.preInv THEN "bad" ELSE "good",
              !.inv = FALSE, !.aged = FALSE, !.err = FALSE]

\* The running fetch ends.
Settled(e) ==
    [e EXCEPT !.st = "idle", !.fails = 0, !.calls = 0, !.joined = FALSE,
              !.preInv = FALSE, !.poll = FALSE]

\* The retryer runs the queryFn again after a failure, or waits for the
\* network.
Retried(e, online) ==
    [e EXCEPT !.fails = @ + 1,
              !.st = IF online THEN "fetching" ELSE "paused",
              !.calls = IF online THEN @ + 1 ELSE @,
              !.preInv = FALSE]

\* A paused retryer continues when the network is back.
Resumed(e) == [e EXCEPT !.st = "fetching", !.calls = @ + 1]

\* ------------------------------------------------------- mounted observers
Ctx(s, v, w, p, f) ==
    [session |-> s, view |-> v, welcome |-> w, mp |-> p, tf |-> f]
CurCtx == Ctx(session, currentView, showWelcome, marketParam, filter)

\* Screens chosen by the dashboards' early returns.
DashMain(c, p) == ~IsLoading(c[MarketKey(p)]) /\ ~c[MarketKey(p)].err
DashError(c, p) == ~IsLoading(c[MarketKey(p)]) /\ c[MarketKey(p)].err
TradingMain(c) == c["wallet"].data # None
TradingCreate(c) == c["wallet"].err /\ c["wallet"].data = None
PortfolioMain(c) == ~IsLoading(c["portfolio"]) /\ ~c["portfolio"].err
PortfolioCreate(c) == ~IsLoading(c["portfolio"]) /\ c["portfolio"].err

\* useQuery hooks of the view component itself
TopKeys(x) ==
    IF x.session # "app" THEN {}
    ELSE IF x.view = "dashboard" THEN {MarketKey(x.mp)}
    ELSE IF x.view = "trading" THEN {"wallet"}
    ELSE IF x.view = "portfolio" THEN {"portfolio", "holdings"}
    ELSE {}

\* useQuery hooks of children rendered only on the main screen:
\* SystemStatus inside WelcomeCard, TransactionHistory inside TradingDashboard
ChildKeys(x, c) ==
    IF x.session # "app" THEN {}
    ELSE IF x.view = "dashboard" /\ x.welcome /\ DashMain(c, x.mp) THEN {"wallet"}
    ELSE IF x.view = "trading" /\ TradingMain(c) THEN {TxKey(x.tf)}
    ELSE {}

Observers(x, c) == TopKeys(x) \cup ChildKeys(x, c)
Active(k) == k \in Observers(CurCtx, cache)

MountAll(S, c, online) ==
    [k \in Keys |-> IF k \in S THEN MountKey(c[k], online) ELSE c[k]]

\* Re-render after a step: observers not in `kept` that the new screen
\* shows subscribe, the view's own hooks first and then its children's.
Render(kept, c, x, online) ==
    LET c2 == MountAll(TopKeys(x) \ kept, c, online)
    IN  MountAll(ChildKeys(x, c2) \ kept, c2, online)

\* ------------------------------------------------------------ invalidation
\* The keys the onSuccess callback of a mutation invalidates.
InvalidatedBy(op, view) ==
    IF op \in {"buy", "sell"} THEN {"wallet", "holdings", "transactions"}
    ELSE IF op = "createWallet"
         THEN (IF view = "trading" THEN {"wallet"}
               ELSE {"portfolio", "holdings", "wallet"})
    ELSE (IF view = "trading" THEN {"wallet", "holdings"}
          ELSE {"portfolio", "holdings"})

Matches(c, R) == {k \in Keys : c[k] # Absent /\ Resource(k) \in R}

\* queryClient.invalidateQueries: every matching query is marked
\* invalidated; the active ones are refetched with cancelRefetch.
InvalidateQueries(c, R, act, online) ==
    [k \in Keys |->
        IF k \notin Matches(c, R) THEN c[k]
        ELSE LET e == [c[k] EXCEPT !.inv = TRUE,
                                   !.data = IF @ = "bad" THEN "good" ELSE @,
                                   !.preInv = (c[k].st = "fetching")]
             IN  IF k \in act THEN Refetch(e, online) ELSE e]

InvalidateOrphans(c, R, act) ==
    UNION {Cancelled(c, k) : k \in Matches(c, R) \cap act}

\* -------------------------------------------------------------- mutations
\* isPending / isLoading of the mounted hook instance
Pending(ops, view) == \E m \in mutations : m.own /\ m.view = view /\ m.op \in ops

\* The button that starts the operation is rendered and enabled.
CanIssue(op, view) ==
    /\ session = "app" /\ currentView = view
    /\ IF op \in {"buy", "sell"}
       THEN view = "trading" /\ TradingMain(cache) /\ ~Pending({"buy", "sell"}, view)
       ELSE IF op = "createWallet"
       THEN /\ ~Pending({op}, view)
            /\ \/ view = "trading" /\ TradingCreate(cache)
               \/ view = "portfolio" /\ PortfolioCreate(cache)
       ELSE /\ ~Pending({op}, view)
            /\ \/ view = "trading" /\ TradingMain(cache)
               \/ view = "portfolio" /\ PortfolioMain(cache)

\* The response interceptor of api.ts: a 401 removes the token and
\* assigns window.location.href.
Intercept(kind) ==
    IF kind = "401"
    THEN authToken' = FALSE /\ session' = "unloading"
    ELSE UNCHANGED <<authToken, session>>


\* What the callbacks of a settled mutation leave in TradingForm.message:
\* onSuccess / onError of buyMutation and sellMutation call setMessage
\* while the form is mounted; createWalletMutation and
\* updatePortfolioMutation are started with mutate() and define no onError.
Reported(m, outcome) ==
    IF m.op \in {"buy", "sell"} /\ m.own THEN outcome ELSE message

\* What a failed request carries: no response at all (a network error), a
\* response whose body has a detail string, or one whose body has none.
ResponseBodies(kind) ==
    IF kind = "network" THEN {"none"} ELSE {"detail", "plain"}

\* Variant: onError always shows the form's own text.
onErrorMessageFixed(body) == "failed"

\* error.response?.data?.detail || 'Buy order failed'
onErrorMessage(body) == IF body = "detail" THEN "detail" ELSE "failed"

\* The values of message that start with the failure mark.
ErrorMessages == {"detail", "failed"}

\* ---------------------------------------------------------- holdings table
\* Amounts are whole dollars and quantities whole coins, up to these bounds.
MaxQuantity == 2
MaxPrice == 3

\* A numeric field of a JSON row: <<n>> when present, <<>> when missing.
Missing == <<>>
Num(n) == <<n>>

\* The Holding rows a holdings response carries. The fields the server
\* sends agree with each other; either derived field may be left out.
Holdings ==
    UNION {
        { [quantity |-> Num(q), current_price |-> Num(p), total_cost |-> Num(c),
           current_value |-> v, unrealized_pnl |-> u] :
             v \in {Num(q * p), Missing}, u \in {Num(q * p - c), Missing} } :
        q \in 1..MaxQuantity, p \in 0..MaxPrice, c \in 0..MaxPrice }

\* value ?? 0
safeNumber(value) == IF value = Missing THEN 0 ELSE value[1]

\* safeNumber(value).toFixed(6): the digits shown, as millionths.
toFixed6(n) == n * 1000000

\* Intl.NumberFormat currency, USD: a sign and an amount printed to the cent.
formatCurrency(value) ==
    LET safeAmount == safeNumber(value)
    IN  [neg |-> safeAmount < 0,
         cents |-> 100 * (IF safeAmount < 0 THEN -safeAmount ELSE safeAmount)]

\* The cells of one table row.
HoldingRow(h) ==
    [quantity       |-> toFixed6(safeNumber(h.quantity)),
     current_price  |-> formatCurrency(h.current_price),
     total_cost     |-> formatCurrency(h.total_cost),
     current_value  |-> formatCurrency(h.current_value),
     unrealized_pnl |-> formatCurrency(h.unrealized_pnl),
     gain           |-> safeNumber(h.unrealized_pnl) >= 0]

\* The numbers a reader takes from the cells.
ShownAmount(cell) == (IF cell.neg THEN -1 ELSE 1) * (cell.cents \div 100)
ShownQuantity(cell) == cell \div 1000000

\* ------------------------------------------------------------ poll interval
\* Variant: a timer is left running for every parameter set the dashboard
\* has shown, instead of being replaced when the query key changes.
IntervalTargetsAccumulating ==
    IF session = "app" /\ currentView = "dashboard" /\ RefetchInterval(isOnline) > 0
    THEN {k \in MarketKeys : cache[k] # Absent}
    ELSE {}

\* Variant: the timer is given up once a fetch of the listing has failed.
IntervalTargetsUntilError ==
    IF /\ session = "app" /\ currentView = "dashboard"
       /\ RefetchInterval(isOnline) > 0
       /\ ~cache[MarketKey(marketParam)].err
    THEN {MarketKey(marketParam)}
    ELSE {}

\* The keys a refetch interval timer is running for. Only the dashboard's
\* useQuery sets refetchInterval; its observer keeps one timer, for the
\* query of the current parameters, and clears it when the key changes,
\* when the interval option becomes false and when the dashboard unmounts.
IntervalTargets ==
    IF session = "app" /\ currentView = "dashboard" /\ RefetchInterval(isOnline) > 0
    THEN {MarketKey(marketParam)}
    ELSE {}

\* ------------------------------------------------------------- connectivity
\* Variant: the 'offline' listener is missing, the flag keeps its value.
handleOfflineMissing == isOnline

\* Variant: the earlier dashboard's handleRefresh, which always refetches.
handleRefreshUngated(online) == TRUE

\* Whether handleRefresh calls refetch(): only when isOnline.
handleRefresh(online) == online

\* The value the 'online' and the 'offline' listener give to isOnline.
handleOnline == TRUE
handleOffline == FALSE

\* ------------------------------------------------------------- trading form
\* Amounts typed into the form are whole numbers up to this bound.
MaxAmount == 2
\* Requests started by handleSubmit that may be in flight at the same time.
MaxTrades == 2

\* The text of the amount input: <<>> when empty, <<n>> for the digits of n.
NoText == <<>>
Text(n) == <<n>>
Amounts == {NoText} \cup {Text(n) : n \in 0..MaxAmount}

\* parseFloat(amount) of a non-empty number input.
parseFloat(text) == text[1]

\* The cryptocurrencies prop: the listing the trading view fetched.
cryptocurrencies ==
    {[symbol |-> "BTC", current_price |-> 3],
     [symbol |-> "ETH", current_price |-> 2]}

Symbols == {c.symbol : c \in cryptocurrencies}

\* cryptocurrencies.find(crypto => crypto.symbol === selectedSymbol)
selectedCrypto == {c \in cryptocurrencies : c.symbol = selectedSymbol}

\* n / d printed with toFixed(6), as millionths rounded half up.
Quotient6(n, d) == (2 * 1000000 * n + d) \div (2 * d)

\* Variant: the estimate treats the amount as a quantity for both sides.
calculateEstimateAsQuantity(type, text, crypto) ==
    IF crypto = {} \/ text = NoText THEN <<>>
    ELSE LET c == CHOOSE x \in crypto : TRUE
         IN  <<[unit |-> "$", value |-> 100 * parseFloat(text) * c.current_price]>>

\* calculateEstimate: nothing without a selected listing entry or amount;
\* for buy the quantity amount / price in millionths of the asset, for
\* sell the value amount * price in cents.
calculateEstimate(type, text, crypto) ==
    IF crypto = {} \/ text = NoText THEN <<>>
    ELSE LET c == CHOOSE x \in crypto : TRUE
             amountNum == parseFloat(text)
         IN  IF type = "buy"
             THEN <<[unit |-> c.symbol,
                     value |-> Quotient6(amountNum, c.current_price)]>>
             ELSE <<[unit |-> "$",
                     value |-> 100 * amountNum * c.current_price]>>

\* Variant: the submit button is disabled by empty fields only.
SubmitDisabledByFields == selectedSymbol = "" \/ amount = NoText

\* disabled={isLoading || !selectedSymbol || !amount}
SubmitDisabled == isLoading \/ selectedSymbol = "" \/ amount = NoText

\* The mutation belongs to the mounted form: buy or sell, not orphaned by
\* a change of view.
OwnTrade(m) == m.op \in {"buy", "sell"} /\ m.own

\* TradingDashboard and its form unmount: their state is dropped.
FormUnmounted ==
    /\ tradeType' = "buy"
    /\ amount' = NoText
    /\ isLoading' = FALSE
    /\ selectedSymbol' = ""
    /\ tradeRequest' = <<>>

\* ------------------------------------------------------ watchlist and toasts
MaxToasts == 3

\* The components that call useToast(): AppWithToast, whose list the
\* ToastContainer renders, and CryptocurrencyDashboard.
ToastInstances == {"App", "Dashboard"}

\* The ids of the cryptocurrencies in a listing response.
ListingIds == {"bitcoin", "ethereum"}

Range(seq) == {seq[i] : i \in DOMAIN seq}

\* prev.filter(x => x !== id)
RECURSIVE Without(_, _)
Without(seq, id) ==
    IF seq = <<>> THEN <<>>
    ELSE IF seq[1] = id THEN Without(Tail(seq), id)
    ELSE <<seq[1]>> \o Without(Tail(seq), id)

\* The updater of handleAddToWatchlist: remove the id if present, append
\* it otherwise.
toggleWatchlist(prev, id) ==
    IF id \in Range(prev) THEN Without(prev, id) ELSE Append(prev, id)

\* filteredCryptocurrencies: the watchlist filter applies only while the
\* watchlist is not empty.
filteredCryptocurrencies(list, only, wl) ==
    IF only /\ Len(wl) > 0 THEN {c \in list : c \in Range(wl)} ELSE list

\* The dashboard shows its main render (not the loading or error screen).
DashboardShown ==
    session = "app" /\ currentView = "dashboard" /\ DashMain(cache, marketParam)

\* cryptocurrencies?.items of the listing query under the current
\* parameters: empty until a response is cached.
items ==
    IF cache[MarketKey(marketParam)].data # None THEN ListingIds ELSE {}

\* The cards of the grid.
Displayed ==
    IF DashboardShown
    THEN filteredCryptocurrencies(items, showOnlyWatchlist, watchlist)
    ELSE {}

\* CryptocurrencyDashboard unmounts or mounts afresh: its useState values
\* and its useToast() list start over; the watchlist is in localStorage.
DashboardUnmounted ==
    /\ showOnlyWatchlist' = FALSE
    /\ toasts' = [toasts EXCEPT !["Dashboard"] = <<>>]
    /\ UNCHANGED <<watchlist, toastId>>

\* The state outside the dashboard's watchlist and the toast lists.
WatchUntouched ==
    UNCHANGED <<session, authToken, currentView, showWelcome, hasVisited,
                marketParam, isOnline, cache, orphans, mutations, message,
                holdings, rows, focused, navigatorOnLine, tradeType, amount,
                isLoading, selectedSymbol, tradeRequest, filter, user,
                authIsLoading, authStep, loginIsLoading, loginError>>

\* ----------------------------------------------------------- authentication
\* authStep: the function of AuthContext in progress and the request it
\* awaits. initializeAuth waits for its timer, for validateToken and for
\* getCurrentUser; login and register wait for the credential request and
\* for getCurrentUser; logout waits for authApi.logout.
Idle == <<"none", "idle">>
AuthSteps ==
    {Idle, <<"init", "timer">>, <<"init", "validate">>, <<"init", "user">>,
     <<"login", "token">>, <<"login", "user">>,
     <<"register", "token">>, <<"register", "user">>, <<"logout", "call">>}

\* Outcomes of a request: a 2xx response or a failure of some kind.
Outcomes == {"ok"} \cup ErrKinds

\* The screen AuthenticatedApp renders once isLoading is false and no user
\* is set, unless a 401 has started the navigation to /login.
SignedOutScreen(r) == IF r = "401" THEN "unloading" ELSE "login"

\* LoginForm's catch: error.response?.data?.detail || 'Login failed. ...'
loginErrorMessage(body) == IF body = "detail" THEN "detail" ELSE "default"

\* MainLayout mounts for a user that has just been set: the state
\* Authenticate leaves, reached here from a named step.
MainLayoutMounts ==
    /\ session' = "app"
    /\ currentView' = "dashboard"
    /\ showWelcome' = ~hasVisited
    /\ marketParam' = 1
    /\ cache' = Render({}, cache, Ctx("app", "dashboard", ~hasVisited, 1, ""), isOnline)
    /\ message' = ""
    /\ filter' = ""
    /\ UNCHANGED <<hasVisited, isOnline, orphans, mutations,
                   holdings, rows, focused, navigatorOnLine,
                   tradeType, amount, isLoading, selectedSymbol, tradeRequest>>
    /\ DashboardUnmounted

\* The state outside AuthContext and LoginForm that a step of theirs
\* leaves alone.
AppUntouched ==
    UNCHANGED <<currentView, showWelcome, hasVisited, marketParam, isOnline,
                cache, orphans, mutations, message, holdings, rows, focused,
                navigatorOnLine, tradeType, amount, isLoading, selectedSymbol,
                tradeRequest, filter, watchlist, showOnlyWatchlist, toastId,
                toasts>>

\* Variant: setIsLoading(false) is the last statement of the try block.
isLoadingAfterInitInTry(r) == r # "ok"

\* AuthContext.isLoading once getCurrentUser of initializeAuth has
\* settled: setIsLoading(false) follows the try/catch, and the catch does
\* not rethrow.
isLoadingAfterInit(r) == FALSE

\* Variant: logout() clears the session only when the server call succeeded.
logoutClearsOnSuccess(r) == r = "ok"

\* The finally block of logout() runs after success and after failure.
logoutClears(r) == TRUE

\* ---------------------------------------------------------------- actions
Init ==
    /\ session = "login"
    /\ authToken = FALSE
    /\ currentView = "dashboard"
    /\ showWelcome = TRUE
    /\ hasVisited = FALSE
    /\ marketParam = 1
    /\ navigatorOnLine \in BOOLEAN
    /\ isOnline = navigatorOnLine
    /\ cache = [k \in Keys |-> Absent]
    /\ orphans = {}
    /\ mutations = {}
    /\ message = ""
    /\ holdings = <<>>
    /\ rows = <<>>
    /\ focused = TRUE
    /\ tradeType = "buy"
    /\ amount = NoText
    /\ isLoading = FALSE
    /\ selectedSymbol = ""
    /\ tradeRequest = <<>>
    /\ filter = ""
    /\ user = FALSE
    /\ authIsLoading = FALSE
    /\ authStep = Idle
    /\ loginIsLoading = FALSE
    /\ loginError = ""
    /\ watchlist = <<>>
    /\ showOnlyWatchlist = FALSE
    /\ toastId = 0
    /\ toasts = [i \in ToastInstances |-> <<>>]

\* login()/register() succeeded: user is set and MainLayout mounts with
\* the market dashboard.
Authenticate ==
    /\ session = "login"
    /\ session' = "app"
    /\ authToken' = TRUE
    /\ currentView' = "dashboard"
    /\ showWelcome' = ~hasVisited
    /\ marketParam' = 1
    /\ cache' = Render({}, cache, Ctx("app", "dashboard", ~hasVisited, 1, ""), isOnline)
    /\ UNCHANGED <<hasVisited, isOnline, orphans, mutations>>
    /\ message' = ""
    /\ UNCHANGED <<holdings, rows>>
    /\ UNCHANGED focused
    /\ UNCHANGED navigatorOnLine
    /\ UNCHANGED <<tradeType, amount, isLoading, selectedSymbol, tradeRequest>>
    /\ UNCHANGED filter
    /\ user' = TRUE
    /\ UNCHANGED <<authIsLoading, authStep, loginIsLoading, loginError>>
    /\ DashboardUnmounted

\* Navigation.onViewChange: the old dashboard unmounts, the new one mounts.
Navigate(v) ==
    /\ session = "app"
    /\ v # currentView
    /\ currentView' = v
    /\ showWelcome' = IF v = "dashboard" THEN ~hasVisited ELSE showWelcome
    /\ marketParam' = IF v = "dashboard" THEN 1 ELSE marketParam
    /\ mutations' = {[m EXCEPT !.own = FALSE] : m \in mutations}
    /\ cache' = Render({}, cache, Ctx("app", v, showWelcome', marketParam', ""), isOnline)
    /\ UNCHANGED <<session, authToken, hasVisited, isOnline, orphans>>
    /\ message' = ""
    /\ UNCHANGED <<holdings, rows>>
    /\ UNCHANGED focused
    /\ UNCHANGED navigatorOnLine
    /\ FormUnmounted
    /\ filter' = ""
    /\ UNCHANGED <<user, authIsLoading, authStep, loginIsLoading, loginError>>
    /\ DashboardUnmounted

\* setSearchTerm / setSortBy / setOrder: the observer moves to another key.
SetMarketParam(p) ==
    /\ session = "app" /\ currentView = "dashboard"
    /\ DashMain(cache, marketParam)
    /\ p # marketParam
    /\ marketParam' = p
    /\ cache' = Render(Observers(CurCtx, cache) \ MarketKeys, cache,
                       Ctx("app", "dashboard", showWelcome, p, filter), isOnline)
    /\ UNCHANGED <<session, authToken, currentView, showWelcome, hasVisited,
                   isOnline, orphans, mutations>>
    /\ UNCHANGED message
    /\ UNCHANGED <<holdings, rows>>
    /\ UNCHANGED focused
    /\ UNCHANGED navigatorOnLine
    /\ UNCHANGED <<tradeType, amount, isLoading, selectedSymbol, tradeRequest>>
    /\ UNCHANGED filter
    /\ UNCHANGED <<user, authIsLoading, authStep, loginIsLoading, loginError>>
    /\ UNCHANGED <<watchlist, showOnlyWatchlist, toastId, toasts>>

\* "Continue to market data" (persist = FALSE) or a WelcomeCard navigation
\* button, which also records the visit in localStorage (persist = TRUE).
DismissWelcome(persist) ==
    /\ session = "app" /\ currentView = "dashboard"
    /\ showWelcome /\ DashMain(cache, marketParam)
    /\ showWelcome' = FALSE
    /\ hasVisited' = (hasVisited \/ persist)
    /\ UNCHANGED <<session, authToken, currentView, marketParam, isOnline,
                   cache, orphans, mutations>>
    /\ UNCHANGED message
    /\ UNCHANGED <<holdings, rows>>
    /\ UNCHANGED focused
    /\ UNCHANGED navigatorOnLine
    /\ UNCHANGED <<tradeType, amount, isLoading, selectedSymbol, tradeRequest>>
    /\ UNCHANGED filter
    /\ UNCHANGED <<user, authIsLoading, authStep, loginIsLoading, loginError>>
    /\ UNCHANGED <<watchlist, showOnlyWatchlist, toastId, toasts>>

\* window 'offline' event
GoOffline ==
    /\ navigatorOnLine
    /\ session # "unloading"
    /\ navigatorOnLine' = FALSE
    /\ isOnline' = handleOffline
    /\ UNCHANGED <<session, authToken, currentView, showWelcome, hasVisited,
                   marketParam, cache, orphans, mutations>>
    /\ UNCHANGED message
    /\ UNCHANGED <<holdings, rows>>
    /\ UNCHANGED focused
    /\ UNCHANGED <<tradeType, amount, isLoading, selectedSymbol, tradeRequest>>
    /\ UNCHANGED filter
    /\ UNCHANGED <<user, authIsLoading, authStep, loginIsLoading, loginError>>
    /\ UNCHANGED <<watchlist, showOnlyWatchlist, toastId, toasts>>

\* window 'online' event: paused fetches and mutations continue, and
\* active stale queries refetch (refetchOnReconnect).
GoOnline ==
    /\ ~navigatorOnLine
    /\ session # "unloading"
    /\ navigatorOnLine' = TRUE
    /\ isOnline' = handleOnline
    /\ cache' = [k \in Keys |->
                   IF cache[k].st = "paused"
                   THEN Resumed(cache[k])
                   ELSE IF Active(k) /\ cache[k].st = "idle" /\ IsStale(cache[k])
                   THEN StartFetch(cache[k], TRUE)
                   ELSE cache[k]]
    /\ mutations' = {[m EXCEPT !.st = "sent"] : m \in mutations}
    /\ UNCHANGED <<session, authToken, currentView, showWelcome, hasVisited,
                   marketParam, orphans>>
    /\ UNCHANGED message
    /\ UNCHANGED <<holdings, rows>>
    /\ UNCHANGED focused
    /\ UNCHANGED <<tradeType, amount, isLoading, selectedSymbol, tradeRequest>>
    /\ UNCHANGED filter
    /\ UNCHANGED <<user, authIsLoading, authStep, loginIsLoading, loginError>>
    /\ UNCHANGED <<watchlist, showOnlyWatchlist, toastId, toasts>>

\* The refetchInterval timer of the market listing fires while no fetch of
\* the key is running (a tick during a fetch joins it and changes nothing).
\* refetchIntervalInBackground is not set: a tick in a hidden page is skipped.
PollTick ==
    /\ focused
    /\ \E k \in IntervalTargets :
          /\ cache[k].st = "idle"
          /\ cache' = [cache EXCEPT ![k] =
                          [StartFetch(@, isOnline) EXCEPT !.poll = TRUE]]
    /\ UNCHANGED <<session, authToken, currentView, showWelcome, hasVisited,
                   marketParam, isOnline, orphans, mutations>>
    /\ UNCHANGED message
    /\ UNCHANGED <<holdings, rows>>
    /\ UNCHANGED focused
    /\ UNCHANGED navigatorOnLine
    /\ UNCHANGED <<tradeType, amount, isLoading, selectedSymbol, tradeRequest>>
    /\ UNCHANGED filter
    /\ UNCHANGED <<user, authIsLoading, authStep, loginIsLoading, loginError>>
    /\ UNCHANGED <<watchlist, showOnlyWatchlist, toastId, toasts>>

\* handleRefresh, from "Refresh Data" (disabled while fetching or offline)
\* or from the error screen's "Try Again"; it refetches only when online.
ManualRefresh ==
    /\ session = "app" /\ currentView = "dashboard"
    /\ LET k == MarketKey(marketParam)
       IN  /\ \/ DashError(cache, marketParam)
              \/ /\ DashMain(cache, marketParam) /\ ~showWelcome
                 /\ cache[k].st = "idle" /\ isOnline
           /\ handleRefresh(isOnline)
           /\ orphans' = orphans \cup Cancelled(cache, k)
           /\ Cardinality(orphans') <= MaxOrphans
           /\ cache' = Render(Observers(CurCtx, cache),
                              [cache EXCEPT ![k] = Refetch(@, isOnline)],
                              CurCtx, isOnline)
    /\ UNCHANGED <<session, authToken, currentView, showWelcome, hasVisited,
                   marketParam, isOnline, mutations>>
    /\ UNCHANGED message
    /\ UNCHANGED <<holdings, rows>>
    /\ UNCHANGED focused
    /\ UNCHANGED navigatorOnLine
    /\ UNCHANGED <<tradeType, amount, isLoading, selectedSymbol, tradeRequest>>
    /\ UNCHANGED filter
    /\ UNCHANGED <<user, authIsLoading, authStep, loginIsLoading, loginError>>
    /\ UNCHANGED <<watchlist, showOnlyWatchlist, toastId, toasts>>

\* Variant: the expected wallet and holdings are written to the cache when
\* the request is sent (an optimistic setQueryData in onMutate).
MutationIssueOptimistic(op, view) ==
    /\ CanIssue(op, view)
    /\ Cardinality(mutations) < MaxMut
    /\ mutations' = mutations \cup
          {[op |-> op, view |-> view, own |-> TRUE, fails |-> 0,
            st |-> IF isOnline THEN "sent" ELSE "paused"]}
    /\ cache' = [k \in Keys |->
                   IF k \in {"wallet", "holdings"} /\ cache[k] # Absent
                   THEN [cache[k] EXCEPT !.data = "good", !.inv = FALSE,
                                         !.aged = FALSE, !.err = FALSE]
                   ELSE cache[k]]
    /\ message' = IF op \in {"buy", "sell"} THEN "" ELSE message
    /\ UNCHANGED <<session, authToken, currentView, showWelcome, hasVisited,
                   marketParam, isOnline, orphans>>
    /\ UNCHANGED <<holdings, rows>>
    /\ UNCHANGED focused
    /\ UNCHANGED navigatorOnLine
    /\ isLoading' = IF op \in {"buy", "sell"} THEN TRUE ELSE isLoading
    /\ UNCHANGED <<tradeType, amount, selectedSymbol, tradeRequest>>
    /\ UNCHANGED filter
    /\ UNCHANGED <<user, authIsLoading, authStep, loginIsLoading, loginError>>
    /\ UNCHANGED <<watchlist, showOnlyWatchlist, toastId, toasts>>

\* Variant: the keys are invalidated when the request is sent (onMutate).
MutationIssueInvalidating(op, view) ==
    /\ CanIssue(op, view)
    /\ Cardinality(mutations) < MaxMut
    /\ mutations' = mutations \cup
          {[op |-> op, view |-> view, own |-> TRUE, fails |-> 0,
            st |-> IF isOnline THEN "sent" ELSE "paused"]}
    /\ cache' = InvalidateQueries(cache, InvalidatedBy(op, view), {}, isOnline)
    /\ UNCHANGED <<session, authToken, currentView, showWelcome, hasVisited,
                   marketParam, isOnline, orphans>>
    /\ message' = IF op \in {"buy", "sell"} THEN "" ELSE message
    /\ UNCHANGED <<holdings, rows>>
    /\ UNCHANGED focused
    /\ UNCHANGED navigatorOnLine
    /\ isLoading' = IF op \in {"buy", "sell"} THEN TRUE ELSE isLoading
    /\ UNCHANGED <<tradeType, amount, selectedSymbol, tradeRequest>>
    /\ UNCHANGED filter
    /\ UNCHANGED <<user, authIsLoading, authStep, loginIsLoading, loginError>>
    /\ UNCHANGED <<watchlist, showOnlyWatchlist, toastId, toasts>>

\* mutate()/mutateAsync(): the request is sent, or held while offline.
MutationIssue(op, view) ==
    /\ CanIssue(op, view)
    /\ Cardinality(mutations) < MaxMut
    /\ mutations' = mutations \cup
          {[op |-> op, view |-> view, own |-> TRUE, fails |-> 0,
            st |-> IF isOnline THEN "sent" ELSE "paused"]}
    /\ UNCHANGED <<session, authToken, currentView, showWelcome, hasVisited,
                   marketParam, isOnline, cache, orphans>>
    /\ message' = IF op \in {"buy", "sell"} THEN "" ELSE message
    /\ UNCHANGED <<holdings, rows>>
    /\ UNCHANGED focused
    /\ UNCHANGED navigatorOnLine
    /\ isLoading' = IF op \in {"buy", "sell"} THEN TRUE ELSE isLoading
    /\ UNCHANGED <<tradeType, amount, selectedSymbol, tradeRequest>>
    /\ UNCHANGED filter
    /\ UNCHANGED <<user, authIsLoading, authStep, loginIsLoading, loginError>>
    /\ UNCHANGED <<watchlist, showOnlyWatchlist, toastId, toasts>>

\* The Remote Store confirms the mutation: onSuccess invalidates.
MutationSucceed(m) ==
    /\ session = "app"
    /\ m \in mutations /\ m.st = "sent"
    /\ mutations' = mutations \ {m}
    /\ LET act == Observers(CurCtx, cache)
           R == InvalidatedBy(m.op, m.view)
       IN  /\ orphans' = orphans \cup InvalidateOrphans(cache, R, act)
           /\ Cardinality(orphans') <= MaxOrphans
           /\ cache' = Render(act, InvalidateQueries(cache, R, act, isOnline),
                              CurCtx, isOnline)
    /\ UNCHANGED <<session, authToken, currentView, showWelcome, hasVisited,
                   marketParam, isOnline>>
    /\ message' = Reported(m, "ok")
    /\ UNCHANGED <<holdings, rows>>
    /\ UNCHANGED focused
    /\ UNCHANGED navigatorOnLine
    /\ isLoading' = IF OwnTrade(m) THEN FALSE ELSE isLoading
    /\ amount' = IF OwnTrade(m) THEN NoText ELSE amount
    /\ tradeRequest' = IF OwnTrade(m) THEN <<>> ELSE tradeRequest
    /\ UNCHANGED <<tradeType, selectedSymbol>>
    /\ UNCHANGED filter
    /\ UNCHANGED <<user, authIsLoading, authStep, loginIsLoading, loginError>>
    /\ UNCHANGED <<watchlist, showOnlyWatchlist, toastId, toasts>>

\* Variant: the keys are invalidated whenever the request settles
\* (onSettled instead of onSuccess).
MutationFailInvalidating(m, kind) ==
    /\ session = "app"
    /\ m \in mutations /\ m.st = "sent"
    /\ Intercept(kind)
    /\ mutations' = mutations \ {m}
    /\ cache' = InvalidateQueries(cache, InvalidatedBy(m.op, m.view), {}, isOnline)
    /\ UNCHANGED <<currentView, showWelcome, hasVisited, marketParam,
                   isOnline, orphans>>
    /\ message' = Reported(m, "failed")
    /\ UNCHANGED <<holdings, rows>>
    /\ UNCHANGED focused
    /\ UNCHANGED navigatorOnLine
    /\ isLoading' = IF OwnTrade(m) /\ m.fails >= MutationRetry THEN FALSE ELSE isLoading
    /\ tradeRequest' = IF OwnTrade(m) /\ m.fails >= MutationRetry THEN <<>> ELSE tradeRequest
    /\ UNCHANGED <<tradeType, amount, selectedSymbol>>
    /\ UNCHANGED filter
    /\ UNCHANGED <<user, authIsLoading, authStep, loginIsLoading, loginError>>
    /\ UNCHANGED <<watchlist, showOnlyWatchlist, toastId, toasts>>

\* The request fails with a response body (or none): onError only
\* reports; a mutation is not retried.
MutationRejected(m, kind, body) ==
    /\ session = "app"
    /\ m \in mutations /\ m.st = "sent"
    /\ Intercept(kind)
    /\ mutations' = IF m.fails < MutationRetry
                    THEN (mutations \ {m}) \cup {[m EXCEPT !.fails = @ + 1]}
                    ELSE mutations \ {m}
    /\ UNCHANGED <<currentView, showWelcome, hasVisited, marketParam,
                   isOnline, cache, orphans>>
    /\ message' = Reported(m, onErrorMessage(body))
    /\ UNCHANGED <<holdings, rows>>
    /\ UNCHANGED focused
    /\ UNCHANGED navigatorOnLine
    /\ isLoading' = IF OwnTrade(m) /\ m.fails >= MutationRetry THEN FALSE ELSE isLoading
    /\ tradeRequest' = IF OwnTrade(m) /\ m.fails >= MutationRetry THEN <<>> ELSE tradeRequest
    /\ UNCHANGED <<tradeType, amount, selectedSymbol>>
    /\ UNCHANGED filter
    /\ UNCHANGED <<user, authIsLoading, authStep, loginIsLoading, loginError>>
    /\ UNCHANGED <<watchlist, showOnlyWatchlist, toastId, toasts>>

\* The bodies that tell failures of m apart: only the onError of
\* buyMutation and sellMutation reads error.response.data.detail.
BodiesRead(m, kind) ==
    IF m.op \in {"buy", "sell"} THEN ResponseBodies(kind) ELSE {"none"}

\* The request fails with an error of the given kind.
MutationFail(m, kind) ==
    \E body \in BodiesRead(m, kind) : MutationRejected(m, kind, body)

\* The queryFn of the running fetch resolves: setData.
FetchSucceed(k) ==
    /\ session = "app"
    /\ cache[k].st = "fetching"
    /\ cache' = Render(Observers(CurCtx, cache),
                       [cache EXCEPT ![k] = Settled(Applied(@))],
                       CurCtx, isOnline)
    /\ UNCHANGED <<session, authToken, currentView, showWelcome, hasVisited,
                   marketParam, isOnline, orphans, mutations>>
    /\ UNCHANGED message
    /\ UNCHANGED <<holdings, rows>>
    /\ UNCHANGED focused
    /\ UNCHANGED navigatorOnLine
    /\ UNCHANGED <<tradeType, amount, isLoading, selectedSymbol, tradeRequest>>
    /\ UNCHANGED filter
    /\ UNCHANGED <<user, authIsLoading, authStep, loginIsLoading, loginError>>
    /\ UNCHANGED <<watchlist, showOnlyWatchlist, toastId, toasts>>

\* The queryFn rejects: the retryer runs it again while retries remain and
\* an observer is subscribed, otherwise the error is stored.
FetchFail(k, kind) ==
    /\ session = "app"
    /\ cache[k].st = "fetching"
    /\ Intercept(kind)
    /\ cache' = Render(Observers(CurCtx, cache),
                       [cache EXCEPT ![k] =
                           IF @.fails < RetryOf(k) /\ Active(k)
                           THEN Retried(@, isOnline)
                           ELSE [Settled(@) EXCEPT !.err = TRUE]],
                       CurCtx, isOnline)
    /\ UNCHANGED <<currentView, showWelcome, hasVisited, marketParam,
                   isOnline, orphans, mutations>>
    /\ UNCHANGED message
    /\ UNCHANGED <<holdings, rows>>
    /\ UNCHANGED focused
    /\ UNCHANGED navigatorOnLine
    /\ UNCHANGED <<tradeType, amount, isLoading, selectedSymbol, tradeRequest>>
    /\ UNCHANGED filter
    /\ UNCHANGED <<user, authIsLoading, authStep, loginIsLoading, loginError>>
    /\ UNCHANGED <<watchlist, showOnlyWatchlist, toastId, toasts>>

\* Variant: the response of a cancelled fetch is written to the cache.
OrphanResolveApplying(o, outcome) ==
    /\ session = "app"
    /\ o \in orphans
    /\ orphans' = orphans \ {o}
    /\ Intercept(outcome)
    /\ cache' = [cache EXCEPT ![o] =
                    IF outcome = "ok" THEN [@ EXCEPT !.data = "bad", !.inv = FALSE]
                    ELSE [@ EXCEPT !.err = TRUE]]
    /\ UNCHANGED <<currentView, showWelcome, hasVisited, marketParam,
                   isOnline, mutations>>
    /\ UNCHANGED message
    /\ UNCHANGED <<holdings, rows>>
    /\ UNCHANGED focused
    /\ UNCHANGED navigatorOnLine
    /\ UNCHANGED <<tradeType, amount, isLoading, selectedSymbol, tradeRequest>>
    /\ UNCHANGED filter
    /\ UNCHANGED <<user, authIsLoading, authStep, loginIsLoading, loginError>>
    /\ UNCHANGED <<watchlist, showOnlyWatchlist, toastId, toasts>>

\* The HTTP call of a cancelled fetch completes; its result is dropped.
OrphanResolve(o, outcome) ==
    /\ session = "app"
    /\ o \in orphans
    /\ orphans' = orphans \ {o}
    /\ Intercept(outcome)
    /\ UNCHANGED <<currentView, showWelcome, hasVisited, marketParam,
                   isOnline, cache, mutations>>
    /\ UNCHANGED message
    /\ UNCHANGED <<holdings, rows>>
    /\ UNCHANGED focused
    /\ UNCHANGED navigatorOnLine
    /\ UNCHANGED <<tradeType, amount, isLoading, selectedSymbol, tradeRequest>>
    /\ UNCHANGED filter
    /\ UNCHANGED <<user, authIsLoading, authStep, loginIsLoading, loginError>>
    /\ UNCHANGED <<watchlist, showOnlyWatchlist, toastId, toasts>>

\* staleTime (5 minutes) passes since the entry was written.
StaleTimeElapses(k) ==
    /\ session = "app"
    /\ cache[k].data # None /\ ~cache[k].aged
    /\ Cardinality({j \in Keys : cache[j].aged}) < MaxAged
    /\ cache' = [cache EXCEPT ![k].aged = TRUE]
    /\ UNCHANGED <<session, authToken, currentView, showWelcome, hasVisited,
                   marketParam, isOnline, orphans, mutations>>
    /\ UNCHANGED message
    /\ UNCHANGED <<holdings, rows>>
    /\ UNCHANGED focused
    /\ UNCHANGED navigatorOnLine
    /\ UNCHANGED <<tradeType, amount, isLoading, selectedSymbol, tradeRequest>>
    /\ UNCHANGED filter
    /\ UNCHANGED <<user, authIsLoading, authStep, loginIsLoading, loginError>>
    /\ UNCHANGED <<watchlist, showOnlyWatchlist, toastId, toasts>>

\* An unobserved idle query is garbage-collected.
Gc(k) ==
    /\ session = "app"
    /\ cache[k] # Absent /\ ~Active(k) /\ cache[k].st = "idle"
    /\ cache' = [cache EXCEPT ![k] = Absent]
    /\ UNCHANGED <<session, authToken, currentView, showWelcome, hasVisited,
                   marketParam, isOnline, orphans, mutations>>
    /\ UNCHANGED message
    /\ UNCHANGED <<holdings, rows>>
    /\ UNCHANGED focused
    /\ UNCHANGED navigatorOnLine
    /\ UNCHANGED <<tradeType, amount, isLoading, selectedSymbol, tradeRequest>>
    /\ UNCHANGED filter
    /\ UNCHANGED <<user, authIsLoading, authStep, loginIsLoading, loginError>>
    /\ UNCHANGED <<watchlist, showOnlyWatchlist, toastId, toasts>>

\* The navigation to /login started by the interceptor unloads the page:
\* a new QueryClient, no user, the login form.
PageReload ==
    /\ session = "unloading"
    /\ session' = "login"
    /\ currentView' = "dashboard"
    /\ showWelcome' = TRUE
    /\ marketParam' = 1
    /\ cache' = [k \in Keys |-> Absent]
    /\ orphans' = {}
    /\ mutations' = {}
    /\ UNCHANGED <<authToken, hasVisited, isOnline>>
    /\ message' = ""
    /\ holdings' = <<>>
    /\ rows' = <<>>
    /\ UNCHANGED focused
    /\ UNCHANGED navigatorOnLine
    /\ FormUnmounted
    /\ filter' = ""
    /\ user' = FALSE
    /\ authIsLoading' = FALSE
    /\ authStep' = Idle
    /\ loginIsLoading' = FALSE
    /\ loginError' = ""
    /\ showOnlyWatchlist' = FALSE
    /\ toastId' = 0
    /\ toasts' = [i \in ToastInstances |-> <<>>]
    /\ UNCHANGED watchlist

\* HoldingsTable is rendered with the rows of a holdings response (one
\* row at most here, so the column sort leaves the order alone).
HoldingsTable(hs) ==
    /\ holdings' = hs
    /\ rows' = [i \in 1..Len(hs) |-> HoldingRow(hs[i])]
    /\ UNCHANGED <<session, authToken, currentView, showWelcome, hasVisited,
                   marketParam, isOnline, cache, orphans, mutations, message>>
    /\ UNCHANGED focused
    /\ UNCHANGED navigatorOnLine
    /\ UNCHANGED <<tradeType, amount, isLoading, selectedSymbol, tradeRequest>>
    /\ UNCHANGED filter
    /\ UNCHANGED <<user, authIsLoading, authStep, loginIsLoading, loginError>>
    /\ UNCHANGED <<watchlist, showOnlyWatchlist, toastId, toasts>>

\* The holdings prop: `holdings || []` or a response with one Holding.
HoldingsProps == {<<>>} \cup {<<h>> : h \in Holdings}

\* visibilitychange to hidden: the tab goes to the background.
WindowHidden ==
    /\ focused
    /\ session # "unloading"
    /\ focused' = FALSE
    /\ UNCHANGED <<session, authToken, currentView, showWelcome, hasVisited,
                   marketParam, isOnline, cache, orphans, mutations, message,
                   holdings, rows>>
    /\ UNCHANGED navigatorOnLine
    /\ UNCHANGED <<tradeType, amount, isLoading, selectedSymbol, tradeRequest>>
    /\ UNCHANGED filter
    /\ UNCHANGED <<user, authIsLoading, authStep, loginIsLoading, loginError>>
    /\ UNCHANGED <<watchlist, showOnlyWatchlist, toastId, toasts>>

\* visibilitychange to visible; refetchOnWindowFocus is false, so no
\* query refetches on the event itself.
WindowVisible ==
    /\ ~focused
    /\ session # "unloading"
    /\ focused' = TRUE
    /\ UNCHANGED <<session, authToken, currentView, showWelcome, hasVisited,
                   marketParam, isOnline, cache, orphans, mutations, message,
                   holdings, rows>>
    /\ UNCHANGED navigatorOnLine
    /\ UNCHANGED <<tradeType, amount, isLoading, selectedSymbol, tradeRequest>>
    /\ UNCHANGED filter
    /\ UNCHANGED <<user, authIsLoading, authStep, loginIsLoading, loginError>>
    /\ UNCHANGED <<watchlist, showOnlyWatchlist, toastId, toasts>>

\* The form is rendered: the trading view shows its main screen.
FormShown == session = "app" /\ currentView = "trading" /\ TradingMain(cache)

\* The Buy / Sell toggle.
setTradeType(t) ==
    /\ FormShown
    /\ t # tradeType
    /\ tradeType' = t
    /\ UNCHANGED <<session, authToken, currentView, showWelcome, hasVisited,
                   marketParam, isOnline, cache, orphans, mutations, message,
                   holdings, rows, focused, navigatorOnLine,
                   amount, isLoading, selectedSymbol, tradeRequest>>
    /\ UNCHANGED filter
    /\ UNCHANGED <<user, authIsLoading, authStep, loginIsLoading, loginError>>
    /\ UNCHANGED <<watchlist, showOnlyWatchlist, toastId, toasts>>

\* Typing into the amount input.
setAmount(text) ==
    /\ FormShown
    /\ text # amount
    /\ amount' = text
    /\ UNCHANGED <<session, authToken, currentView, showWelcome, hasVisited,
                   marketParam, isOnline, cache, orphans, mutations, message,
                   holdings, rows, focused, navigatorOnLine,
                   tradeType, isLoading, selectedSymbol, tradeRequest>>
    /\ UNCHANGED filter
    /\ UNCHANGED <<user, authIsLoading, authStep, loginIsLoading, loginError>>
    /\ UNCHANGED <<watchlist, showOnlyWatchlist, toastId, toasts>>

\* Choosing an option of the cryptocurrency select ("" is the placeholder).
onSymbolChange(symbol) ==
    /\ FormShown
    /\ symbol # selectedSymbol
    /\ selectedSymbol' = symbol
    /\ UNCHANGED <<session, authToken, currentView, showWelcome, hasVisited,
                   marketParam, isOnline, cache, orphans, mutations, message,
                   holdings, rows, focused, navigatorOnLine,
                   tradeType, amount, isLoading, tradeRequest>>
    /\ UNCHANGED filter
    /\ UNCHANGED <<user, authIsLoading, authStep, loginIsLoading, loginError>>
    /\ UNCHANGED <<watchlist, showOnlyWatchlist, toastId, toasts>>

\* handleSubmit, from the submit button (disabled while isLoading or with
\* an empty symbol or amount): it returns at once with an empty field,
\* otherwise builds the tradeRequest and starts the buy or sell mutation.
handleSubmit ==
    /\ FormShown
    /\ ~SubmitDisabled
    /\ selectedSymbol # "" /\ amount # NoText
    /\ Cardinality(mutations) < MaxTrades
    /\ isLoading' = TRUE
    /\ message' = ""
    /\ tradeRequest' = <<[op |-> tradeType, symbol |-> selectedSymbol,
                          amount |-> parseFloat(amount)]>>
    /\ mutations' = mutations \cup
          {[op |-> tradeType, view |-> "trading", own |-> TRUE, fails |-> 0,
            st |-> IF isOnline THEN "sent" ELSE "paused"]}
    /\ UNCHANGED <<session, authToken, currentView, showWelcome, hasVisited,
                   marketParam, isOnline, cache, orphans,
                   holdings, rows, focused, navigatorOnLine,
                   tradeType, amount, selectedSymbol>>
    /\ UNCHANGED filter
    /\ UNCHANGED <<user, authIsLoading, authStep, loginIsLoading, loginError>>
    /\ UNCHANGED <<watchlist, showOnlyWatchlist, toastId, toasts>>

\* The filter select of the transaction history: the hook moves to the
\* key of the new filter.
setFilter(f) ==
    /\ FormShown
    /\ f # filter
    /\ filter' = f
    /\ cache' = Render(Observers(CurCtx, cache) \ TxKeys, cache,
                       Ctx("app", "trading", showWelcome, marketParam, f), isOnline)
    /\ UNCHANGED <<session, authToken, currentView, showWelcome, hasVisited,
                   marketParam, isOnline, orphans, mutations, message,
                   holdings, rows, focused, navigatorOnLine,
                   tradeType, amount, isLoading, selectedSymbol, tradeRequest>>
    /\ UNCHANGED <<user, authIsLoading, authStep, loginIsLoading, loginError>>
    /\ UNCHANGED <<watchlist, showOnlyWatchlist, toastId, toasts>>

\* The 100 ms timer of the start-up effect fires: initializeAuth reads the
\* stored token and, with one, sends validateToken; without one it is done.
initializeAuth ==
    /\ authStep = <<"init", "timer">>
    /\ IF authToken
       THEN /\ authStep' = <<"init", "validate">>
            /\ UNCHANGED <<session, authIsLoading>>
       ELSE /\ authStep' = Idle
            /\ authIsLoading' = FALSE
            /\ session' = "login"
    /\ UNCHANGED <<authToken, user, loginIsLoading, loginError>>
    /\ AppUntouched

\* validateToken settles: true on a response, false on any failure (its
\* own catch); on false initializeAuth removes the token and is done.
validateTokenSettles(r) ==
    /\ authStep = <<"init", "validate">>
    /\ session # "unloading"
    /\ IF r = "ok"
       THEN /\ authStep' = <<"init", "user">>
            /\ UNCHANGED <<session, authToken, authIsLoading>>
       ELSE /\ authStep' = Idle
            /\ authToken' = FALSE
            /\ authIsLoading' = FALSE
            /\ session' = SignedOutScreen(r)
    /\ UNCHANGED <<user, loginIsLoading, loginError>>
    /\ AppUntouched

\* getCurrentUser of initializeAuth settles: setUser, or the catch that
\* removes the token; setIsLoading(false) either way.
initUserSettles(r) ==
    /\ authStep = <<"init", "user">>
    /\ session # "unloading"
    /\ authStep' = Idle
    /\ authIsLoading' = isLoadingAfterInit(r)
    /\ UNCHANGED <<loginIsLoading, loginError>>
    /\ IF r = "ok"
       THEN /\ user' = TRUE
            /\ UNCHANGED authToken
            /\ MainLayoutMounts
       ELSE /\ authToken' = FALSE
            /\ session' = IF isLoadingAfterInit(r) /\ r # "401"
                          THEN "loading" ELSE SignedOutScreen(r)
            /\ UNCHANGED user
            /\ AppUntouched

\* handleSubmit of LoginForm or RegisterForm (button disabled while
\* isLoading): login() or register() sends the credential request.
submitCredentials(op) ==
    /\ session = "login"
    /\ authStep = Idle /\ ~loginIsLoading
    /\ authStep' = <<op, "token">>
    /\ loginIsLoading' = TRUE
    /\ loginError' = ""
    /\ UNCHANGED <<session, authToken, user, authIsLoading>>
    /\ AppUntouched

\* The credential request settles: the token is stored and getCurrentUser
\* is sent, or the failure is rethrown to the form, which shows it.
credentialsSettle(op, r, body) ==
    /\ authStep = <<op, "token">>
    /\ session # "unloading"
    /\ IF r = "ok"
       THEN /\ authToken' = TRUE
            /\ authStep' = <<op, "user">>
            /\ UNCHANGED <<session, loginIsLoading, loginError>>
       ELSE /\ Intercept(r)
            /\ authStep' = Idle
            /\ loginIsLoading' = FALSE
            /\ loginError' = loginErrorMessage(body)
    /\ UNCHANGED <<user, authIsLoading>>
    /\ AppUntouched

\* getCurrentUser of login() or register() settles: setUser, or the
\* failure is rethrown to the form; the token stored before stays unless
\* the failure is a 401.
sessionUserSettles(op, r, body) ==
    /\ authStep = <<op, "user">>
    /\ session # "unloading"
    /\ authStep' = Idle
    /\ loginIsLoading' = FALSE
    /\ UNCHANGED authIsLoading
    /\ IF r = "ok"
       THEN /\ user' = TRUE
            /\ UNCHANGED <<authToken, loginError>>
            /\ MainLayoutMounts
       ELSE /\ Intercept(r)
            /\ loginError' = loginErrorMessage(body)
            /\ UNCHANGED user
            /\ AppUntouched

\* handleLogout of the navigation bar: logout() sends authApi.logout.
handleLogout ==
    /\ session = "app"
    /\ authStep = Idle
    /\ authStep' = <<"logout", "call">>
    /\ UNCHANGED <<session, authToken, user, authIsLoading,
                   loginIsLoading, loginError>>
    /\ AppUntouched

\* authApi.logout settles: whatever the outcome, the finally of logout()
\* removes the token and clears the user, and MainLayout unmounts.
logoutSettles(r) ==
    /\ authStep = <<"logout", "call">>
    /\ session # "unloading"
    /\ authStep' = Idle
    /\ authToken' = IF logoutClears(r) THEN FALSE ELSE authToken
    /\ user' = IF logoutClears(r) THEN FALSE ELSE user
    /\ session' = IF r = "401" THEN "unloading"
                  ELSE IF logoutClears(r) THEN "login" ELSE session
    /\ mutations' = IF logoutClears(r)
                    THEN {[m EXCEPT !.own = FALSE] : m \in mutations}
                    ELSE mutations
    /\ IF logoutClears(r)
       THEN FormUnmounted /\ filter' = "" /\ message' = "" /\ DashboardUnmounted
       ELSE UNCHANGED <<tradeType, amount, isLoading, selectedSymbol,
                        tradeRequest, filter, message,
                        watchlist, showOnlyWatchlist, toastId, toasts>>
    /\ UNCHANGED <<currentView, showWelcome, hasVisited, marketParam,
                   isOnline, cache, orphans, holdings, rows, focused,
                   navigatorOnLine, authIsLoading, loginIsLoading, loginError>>


\* The star of a displayed card: the updater toggles the id and raises a
\* toast (info or success) through the dashboard's own useToast().
handleAddToWatchlist(id) ==
    /\ id \in Displayed
    /\ toastId < MaxToasts
    /\ watchlist' = toggleWatchlist(watchlist, id)
    /\ toastId' = toastId + 1
    /\ toasts' = [toasts EXCEPT !["Dashboard"] = Append(@, toastId + 1)]
    /\ UNCHANGED showOnlyWatchlist
    /\ WatchUntouched

\* The "Watchlist (n)" button, rendered while the watchlist is not empty
\* and the welcome card is gone.
setShowOnlyWatchlist ==
    /\ DashboardShown /\ ~showWelcome
    /\ Len(watchlist) > 0
    /\ showOnlyWatchlist' = ~showOnlyWatchlist
    /\ UNCHANGED <<watchlist, toastId, toasts>>
    /\ WatchUntouched

\* onClose of a toast the ToastContainer renders (the close button or the
\* end of its duration): removeToast of AppWithToast's instance.
removeToast(id) ==
    /\ session # "unloading"
    /\ id \in Range(toasts["App"])
    /\ toasts' = [toasts EXCEPT !["App"] = Without(@, id)]
    /\ UNCHANGED <<watchlist, showOnlyWatchlist, toastId>>
    /\ WatchUntouched

Next ==
    \/ Authenticate
    \/ \E v \in Views : Navigate(v)
    \/ \E p \in MarketParams : SetMarketParam(p)
    \/ \E b \in BOOLEAN : DismissWelcome(b)
    \/ GoOffline
    \/ GoOnline
    \/ PollTick
    \/ ManualRefresh
    \/ \E op \in Ops, v \in {"trading", "portfolio"} : MutationIssue(op, v)
    \/ \E m \in mutations : MutationSucceed(m)
    \/ \E m \in mutations, kind \in ErrKinds : MutationFail(m, kind)
    \/ \E k \in Keys : FetchSucceed(k)
    \/ \E k \in Keys, kind \in ErrKinds : FetchFail(k, kind)
    \/ \E o \in orphans, r \in {"ok"} \cup ErrKinds : OrphanResolve(o, r)
    \/ \E k \in Keys : StaleTimeElapses(k)
    \/ \E k \in Keys : Gc(k)
    \/ PageReload
    \/ \E hs \in HoldingsProps : HoldingsTable(hs)
    \/ WindowHidden
    \/ WindowVisible
    \/ \E t \in {"buy", "sell"} : setTradeType(t)
    \/ \E text \in Amounts : setAmount(text)
    \/ \E symbol \in Symbols \cup {""} : onSymbolChange(symbol)
    \/ handleSubmit
    \/ \E f \in TxFilters : setFilter(f)
    \/ initializeAuth
    \/ \E r \in Outcomes : validateTokenSettles(r)
    \/ \E r \in Outcomes : initUserSettles(r)
    \/ \E op \in {"login", "register"} : submitCredentials(op)
    \/ \E op \in {"login", "register"}, r \in Outcomes :
          \E body \in ResponseBodies(r) : credentialsSettle(op, r, body)
    \/ \E op \in {"login", "register"}, r \in Outcomes :
          \E body \in ResponseBodies(r) : sessionUserSettles(op, r, body)
    \/ handleLogout
    \/ \E r \in Outcomes : logoutSettles(r)
    \/ \E id \in ListingIds : handleAddToWatchlist(id)
    \/ setShowOnlyWatchlist
    \/ \E id \in 1..MaxToasts : removeToast(id)

Spec == Init /\ [][Next]_vars

\* ------------------------------------------------------------- scenarios
\* Spec is the whole application.  Each scenario below keeps the handlers
\* of one part of the user interface, so every behaviour of a scenario is a
\* behaviour of Spec.

\* Trading view: all four mutations issued from TradingDashboard /
\* TradingForm, with visits to the portfolio view in between.
NextTrade ==
    \/ Authenticate
    \/ \E v \in {"trading", "portfolio"} : Navigate(v)
    \/ \E op \in Ops : MutationIssue(op, "trading")
    \/ \E m \in mutations : MutationSucceed(m)
    \/ \E m \in mutations, kind \in ErrKinds : MutationFail(m, kind)
    \/ \E k \in {"wallet", "transactions", "holdings"} : FetchSucceed(k)
    \/ FetchFail("wallet", "network")
    \/ \E o \in orphans : OrphanResolve(o, "ok")
    \/ PageReload

SpecTrade == Init /\ [][NextTrade]_vars

\* Trading view with the responses of the portfolio query arriving as well:
\* a portfolio fetch started in the other view can resolve after a trade.
NextStale ==
    \/ Authenticate
    \/ \E v \in {"trading", "portfolio"} : Navigate(v)
    \/ \E op \in Ops : MutationIssue(op, "trading")
    \/ \E m \in mutations : MutationSucceed(m)
    \/ \E m \in mutations, kind \in ErrKinds : MutationFail(m, kind)
    \/ \E k \in {"wallet", "transactions", "portfolio", "holdings"} : FetchSucceed(k)
    \/ FetchFail("wallet", "network")
    \/ \E o \in orphans : OrphanResolve(o, "ok")
    \/ PageReload

SpecStale == Init /\ [][NextStale]_vars

\* Portfolio view: the two mutations of PortfolioDashboard.
NextPortfolio ==
    \/ Authenticate
    \/ \E v \in {"trading", "portfolio"} : Navigate(v)
    \/ \E op \in {"createWallet", "updatePortfolio"} : MutationIssue(op, "portfolio")
    \/ \E m \in mutations : MutationSucceed(m)
    \/ \E m \in mutations, kind \in ErrKinds : MutationFail(m, kind)
    \/ \E k \in {"wallet", "transactions", "portfolio", "holdings"} : FetchSucceed(k)
    \/ FetchFail("portfolio", "network")
    \/ \E o \in orphans, r \in {"ok"} \cup ErrKinds : OrphanResolve(o, r)
    \/ PageReload

SpecPortfolio == Init /\ [][NextPortfolio]_vars

\* Market dashboard: the 30 s poll, manual refresh and connectivity.
NextPoll ==
    \/ Authenticate
    \/ \E p \in MarketParams : SetMarketParam(p)
    \/ \E b \in BOOLEAN : DismissWelcome(b)
    \/ GoOffline
    \/ GoOnline
    \/ PollTick
    \/ ManualRefresh
    \/ \E k \in MarketKeys \cup {"wallet"} : FetchSucceed(k)
    \/ \E k \in MarketKeys, kind \in ErrKinds : FetchFail(k, kind)
    \/ \E o \in orphans, r \in {"ok"} \cup ErrKinds : OrphanResolve(o, r)
    \/ PageReload

SpecPoll == Init /\ [][NextPoll]_vars

\* Two views that read the same key: SystemStatus on the market dashboard
\* and TradingDashboard both observe ['wallet'].
NextViews ==
    \/ Authenticate
    \/ \E v \in {"dashboard", "trading"} : Navigate(v)
    \/ \E b \in BOOLEAN : DismissWelcome(b)
    \/ GoOffline
    \/ GoOnline
    \/ \E k \in {"market1", "wallet", "transactions"} : FetchSucceed(k)
    \/ \E k \in {"market1", "wallet", "transactions"}, kind \in ErrKinds : FetchFail(k, kind)
    \/ \E k \in {"wallet", "transactions"} : StaleTimeElapses(k)
    \/ \E k \in Keys : Gc(k)
    \/ PageReload

SpecViews == Init /\ [][NextViews]_vars

\* Failing requests: fetches with and without retry: false, and mutations.
NextRetry ==
    \/ Authenticate
    \/ Navigate("trading")
    \/ GoOffline
    \/ GoOnline
    \/ \E op \in {"buy", "createWallet"} : MutationIssue(op, "trading")
    \/ \E m \in mutations : MutationSucceed(m)
    \/ \E m \in mutations, kind \in ErrKinds : MutationFail(m, kind)
    \/ \E k \in {"wallet", "transactions"} : FetchSucceed(k)
    \/ \E k \in {"market1", "wallet", "transactions"}, kind \in ErrKinds : FetchFail(k, kind)
    \/ \E o \in orphans, r \in {"ok"} \cup ErrKinds : OrphanResolve(o, r)
    \/ PageReload

SpecRetry == Init /\ [][NextRetry]_vars

\* The market poll under its timer: the interval keeps firing while it is
\* set (weak fairness of PollTick); requests may take forever to settle.
NextPollLive ==
    \/ Authenticate
    \/ \E v \in {"dashboard", "trading"} : Navigate(v)
    \/ \E p \in MarketParams : SetMarketParam(p)
    \/ GoOffline
    \/ GoOnline
    \/ WindowHidden
    \/ WindowVisible
    \/ PollTick
    \/ \E k \in MarketKeys \cup {"wallet", "transactions"} : FetchSucceed(k)
    \/ \E k \in MarketKeys, kind \in ErrKinds : FetchFail(k, kind)
    \/ PageReload

SpecPollLive == Init /\ [][NextPollLive]_vars /\ WF_vars(PollTick)

\* The trading form: its fields, its submit and the request's outcome.
NextForm ==
    \/ Authenticate
    \/ Navigate("trading")
    \/ \E t \in {"buy", "sell"} : setTradeType(t)
    \/ \E text \in Amounts : setAmount(text)
    \/ \E symbol \in Symbols \cup {""} : onSymbolChange(symbol)
    \/ handleSubmit
    \/ \E m \in mutations : MutationSucceed(m)
    \/ \E m \in mutations, kind \in ErrKinds : MutationFail(m, kind)
    \/ \E k \in {"wallet", "transactions"} : FetchSucceed(k)
    \/ PageReload

SpecForm == Init /\ [][NextForm]_vars

\* The transaction history under trades: its filter and both of its keys.
NextHistory ==
    \/ Authenticate
    \/ \E v \in {"dashboard", "trading"} : Navigate(v)
    \/ \E f \in TxFilters : setFilter(f)
    \/ \E op \in {"buy", "sell"} : MutationIssue(op, "trading")
    \/ \E m \in mutations : MutationSucceed(m)
    \/ \E m \in mutations : MutationFail(m, "4xx")
    \/ \E k \in {"wallet"} \cup TxKeys : FetchSucceed(k)
    \/ \E o \in orphans : OrphanResolve(o, "ok")

SpecHistory == Init /\ [][NextHistory]_vars

\* Application start: the spinner is shown, initializeAuth is scheduled
\* and localStorage may hold a token of an earlier visit.
InitAuth ==
    /\ session = "loading"
    /\ authToken \in BOOLEAN
    /\ currentView = "dashboard"
    /\ showWelcome = TRUE
    /\ hasVisited \in BOOLEAN
    /\ marketParam = 1
    /\ navigatorOnLine \in BOOLEAN
    /\ isOnline = navigatorOnLine
    /\ cache = [k \in Keys |-> Absent]
    /\ orphans = {}
    /\ mutations = {}
    /\ message = ""
    /\ holdings = <<>>
    /\ rows = <<>>
    /\ focused = TRUE
    /\ tradeType = "buy"
    /\ amount = NoText
    /\ isLoading = FALSE
    /\ selectedSymbol = ""
    /\ tradeRequest = <<>>
    /\ filter = ""
    /\ user = FALSE
    /\ authIsLoading = TRUE
    /\ authStep = <<"init", "timer">>
    /\ loginIsLoading = FALSE
    /\ loginError = ""
    /\ watchlist = <<>>
    /\ showOnlyWatchlist = FALSE
    /\ toastId = 0
    /\ toasts = [i \in ToastInstances |-> <<>>]

\* Signing in and out, from application start, with the dashboard's first
\* fetch behind it.
NextAuth ==
    \/ initializeAuth
    \/ \E r \in Outcomes : validateTokenSettles(r)
    \/ \E r \in Outcomes : initUserSettles(r)
    \/ \E op \in {"login", "register"} : submitCredentials(op)
    \/ \E op \in {"login", "register"}, r \in Outcomes :
          \E body \in ResponseBodies(r) : credentialsSettle(op, r, body)
    \/ \E op \in {"login", "register"}, r \in Outcomes :
          \E body \in ResponseBodies(r) : sessionUserSettles(op, r, body)
    \/ handleLogout
    \/ \E r \in Outcomes : logoutSettles(r)
    \/ \E b \in BOOLEAN : DismissWelcome(b)
    \/ \E k \in MarketKeys \cup {"wallet"} : FetchSucceed(k)
    \/ \E k \in MarketKeys, kind \in ErrKinds : FetchFail(k, kind)
    \/ PageReload

SpecAuth == InitAuth /\ [][NextAuth]_vars

\* Every request settles within the axios timeout and the start-up timer
\* fires, so each step of initializeAuth is taken once it is enabled.
SpecAuthLive ==
    /\ InitAuth /\ [][NextAuth]_vars
    /\ WF_vars(initializeAuth)
    /\ WF_vars(\E r \in Outcomes : validateTokenSettles(r))
    /\ WF_vars(\E r \in Outcomes : initUserSettles(r))

\* The market dashboard with its watchlist. No step closes a toast: the
\* ToastContainer renders the list of AppWithToast, which nothing adds to.
NextWatch ==
    \/ Authenticate
    \/ \E v \in {"dashboard", "trading"} : Navigate(v)
    \/ \E b \in BOOLEAN : DismissWelcome(b)
    \/ \E p \in MarketParams : SetMarketParam(p)
    \/ \E k \in MarketKeys : FetchSucceed(k)
    \/ \E k \in MarketKeys, kind \in ErrKinds : FetchFail(k, kind)
    \/ \E id \in ListingIds : handleAddToWatchlist(id)
    \/ setShowOnlyWatchlist
    \/ PageReload

SpecWatch == Init /\ [][NextWatch]_vars

\* The holdings table alone, fed with holdings responses.
NextHoldings == \E hs \in HoldingsProps : HoldingsTable(hs)

SpecHoldings == Init /\ [][NextHoldings]_vars

\* ------------------------------------------------------------- properties
\* Every existing entry of the resources R is marked invalidated by the
\* step, and no entry of another resource changes its mark.
InvalidatedExactly(R) ==
    \A k \in Keys :
        /\ (cache[k] # Absent /\ Resource(k) \in R) => cache'[k].inv
        /\ Resource(k) \notin R => cache'[k].inv = cache[k].inv

\* C1: when the Remote Store call of a mutation (buy, sell, create-wallet,
\* update-portfolio) fails, no cache entry changes: neither its value nor
\* its stale mark nor its fetch state.
FailedMutationLeavesCache ==
    [][(\E m \in mutations, kind \in ErrKinds : MutationFail(m, kind))
          => cache' = cache]_vars

\* A rejected request (401) has ended the session while the wallet and the
\* transactions are cached, fresh and not invalidated.
FailedMutationWitness ==
    /\ session = "unloading"
    /\ mutations = {}
    /\ \A k \in {"wallet", "transactions"} :
          cache[k].data = "good" /\ ~cache[k].inv /\ cache[k].st = "idle"

\* C2: an entry is marked invalidated only by the step in which the success
\* response of a mutation that had been sent arrives; never when the
\* mutation is issued, while it is in flight, or when it fails.
InvalidationOnlyOnSuccess ==
    [][(\E k \in Keys : ~cache[k].inv /\ cache'[k].inv)
          => (\E m \in mutations : m.st = "sent" /\ MutationSucceed(m))]_vars

\* The wallet is invalidated and being refetched after the only mutation
\* in flight has been confirmed.
InvalidationWitness ==
    /\ mutations = {}
    /\ cache["wallet"].inv /\ cache["wallet"].st = "fetching"
    /\ cache["wallet"].data = "good"

\* C3: a confirmed buy or sell invalidates exactly wallet, holdings,
\* transactions and portfolio.
TradeInvalidatesFour ==
    [][\A m \in mutations :
          (m.op \in {"buy", "sell"} /\ MutationSucceed(m))
             => InvalidatedExactly({"wallet", "holdings", "transactions", "portfolio"})]_vars

\* C4: a confirmed create-wallet invalidates exactly wallet, holdings and
\* portfolio, whichever view issued it.
CreateWalletInvalidatesThree ==
    [][\A m \in mutations :
          (m.op = "createWallet" /\ MutationSucceed(m))
             => InvalidatedExactly({"wallet", "holdings", "portfolio"})]_vars

\* C5: a confirmed update-portfolio invalidates exactly portfolio and
\* holdings, whichever view issued it.
UpdatePortfolioInvalidatesTwo ==
    [][\A m \in mutations :
          (m.op = "updatePortfolio" /\ MutationSucceed(m))
             => InvalidatedExactly({"portfolio", "holdings"})]_vars

\* C6: callers that ask for a key while a fetch of it is in flight share
\* that fetch: the queryFn has run once for the first caller and once more
\* per failed attempt that was retried, and joining adds no run; for the
\* keys fetched with retry: false (wallet) a shared fetch is exactly one run.
SharedFetchRunsOnce ==
    \A k \in Keys :
        /\ cache[k].calls = cache[k].fails + (IF cache[k].st = "fetching" THEN 1 ELSE 0)
        /\ (cache[k].joined /\ RetryOf(k) = 0) => cache[k].calls <= 1

\* TradingDashboard has subscribed to ['wallet'] while the fetch started
\* for SystemStatus is still in flight.
SharedFetchWitness ==
    /\ currentView = "trading"
    /\ cache["wallet"].joined /\ cache["wallet"].st = "fetching"
    /\ cache["wallet"].calls = 1

\* C7: after an invalidation the entry stays stale until a request sent
\* after the invalidation resolves, so the next read inside the staleness
\* window refetches and reads never settle on a pre-invalidation value.
NoPreInvalidationValueKept ==
    \A k \in Keys : cache[k].data # "bad"

NoPollWhileOffline ==
    [][(\E k \in MarketKeys : ~cache[k].poll /\ cache'[k].poll) => isOnline]_vars

\* Offline on the market dashboard with the listing loaded and idle: the
\* interval would be due, and no poll fetch is running.
OfflinePollWitness ==
    /\ session = "app" /\ currentView = "dashboard" /\ ~isOnline
    /\ cache[MarketKey(marketParam)].st = "idle"
    /\ cache[MarketKey(marketParam)].data # None
    /\ \A k \in MarketKeys : ~cache[k].poll

RetainedValueShown ==
    session = "app" =>
        /\ (currentView = "dashboard" /\ cache[MarketKey(marketParam)].data # None)
              => DashMain(cache, marketParam)
        /\ (currentView = "portfolio" /\ cache["portfolio"].data # None)
              => PortfolioMain(cache)

\* C12: no failure is swallowed: the step in which the request of a
\* mutation fails leaves the error with the component that started it, and
\* a fetch that has failed for good leaves the error on its cache entry.
FailureReachesCaller ==
    [][/\ \A m \in mutations, kind \in ErrKinds :
             (m.own /\ MutationFail(m, kind)) => message' \in ErrorMessages
       /\ \A k \in Keys, kind \in ErrKinds :
             (FetchFail(k, kind) /\ cache'[k].st = "idle") => cache'[k].err]_vars

\* C13: the cached wallet and holdings are written only by a completed
\* fetch: a step that changes the value of either entry, or clears its
\* invalidated mark, is the step in which the running fetch of that key
\* resolves.  (Marking an entry invalidated turns a kept pre-invalidation
\* value back into an invalidated one; that is no write.)
WrittenOnlyByFetch ==
    [][\A k \in {"wallet", "holdings"} :
          (/\ cache'[k] # Absent
           /\ \/ cache'[k].data # cache[k].data
              \/ cache[k].inv /\ ~cache'[k].inv
           /\ ~(cache[k].data = "bad" /\ cache'[k].data = "good" /\ cache'[k].inv))
             => (cache[k].st = "fetching" /\ cache'[k] = Settled(Applied(cache[k])))]_vars

\* A trade has been confirmed and the wallet it invalidated has since been
\* replaced by the result of the refetch, while the holdings (not shown in
\* the trading view) keep their old value, marked invalidated.
WrittenByFetchWitness ==
    /\ message = "ok" /\ mutations = {}
    /\ cache["wallet"].data = "good" /\ ~cache["wallet"].inv
    /\ cache["wallet"].st = "idle"
    /\ cache["holdings"].data = "good" /\ cache["holdings"].inv

\* C14: a 401 answer to any request ends the session and is not retried:
\* in the step in which it arrives the token is removed, the navigation to
\* the login page starts, the error reaches the caller, and the request is
\* not run again.
UnauthorizedEndsSession ==
    [][/\ \A k \in Keys :
             FetchFail(k, "401")
                => /\ ~authToken' /\ session' = "unloading"
                   /\ cache'[k].err
                   /\ cache'[k].st = "idle"
       /\ \A m \in mutations :
             MutationFail(m, "401")
                => /\ ~authToken' /\ session' = "unloading"
                   /\ m.own => message' \in ErrorMessages
                   /\ mutations' = mutations \ {m}]_vars

\* The observers mounted after the step.
CurCtxNext == Ctx(session', currentView', showWelcome', marketParam', filter')

\* C15 as stated: the wallet and the holdings never become stale through
\* elapsed time.
WalletNeverExpires ==
    \A k \in {"wallet", "holdings"} : ~cache[k].aged

\* C15 amended: every entry, the wallet and the holdings included, is stale
\* once staleTime has elapsed since it was fetched: a view that mounts on
\* such an entry while no fetch of it is running starts a refetch.
ExpiredEntryRefetchedOnMount ==
    [][\A k \in Keys :
          (/\ cache[k].aged /\ cache[k].st = "idle"
           /\ k \notin Observers(CurCtx, cache)
           /\ k \in Observers(CurCtxNext, cache'))
             => cache'[k].st # "idle"]_vars

\* The wallet, fetched more than staleTime ago and never invalidated, is
\* being refetched for the trading view.
ExpiredWalletWitness ==
    /\ currentView = "trading"
    /\ cache["wallet"].aged /\ ~cache["wallet"].inv
    /\ cache["wallet"].data = "good" /\ cache["wallet"].st # "idle"

\* C16: every Holding row on display reads current_value = quantity *
\* current_price and unrealized_pnl = current_value - total_cost, also
\* when the response left one of the derived fields out.
DisplayedHoldingConsistent ==
    \A i \in 1..Len(rows) :
        /\ ShownAmount(rows[i].current_value)
              = ShownQuantity(rows[i].quantity) * ShownAmount(rows[i].current_price)
        /\ ShownAmount(rows[i].unrealized_pnl)
              = ShownAmount(rows[i].current_value) - ShownAmount(rows[i].total_cost)

DashboardOnline == session = "app" /\ currentView = "dashboard" /\ isOnline

\* No request for the current market listing is in flight.
MarketIdle == cache[MarketKey(marketParam)].st = "idle"

IsOnlineFollowsEvents ==
    /\ [](isOnline = navigatorOnLine)
    /\ [][/\ GoOnline => isOnline'
          /\ GoOffline => ~isOnline'
          /\ (isOnline' # isOnline) => (GoOnline \/ GoOffline)]_vars

\* The dashboard shows a listing fetched while online and the flag is
\* false: an 'offline' event was the last one.
OfflineEventWitness ==
    /\ session = "app" /\ currentView = "dashboard"
    /\ ~isOnline /\ ~navigatorOnLine
    /\ cache[MarketKey(marketParam)].data = "good"
    /\ cache[MarketKey(marketParam)].st = "idle"

\* C20: a user-triggered refresh, from "Refresh Data" or from the error
\* screen's "Try Again", starts a fetch only while the browser is online.
NoManualRefreshOffline == [][ManualRefresh => isOnline]_vars

\* The error screen with its "Try Again" button is shown while offline and
\* no request for the listing is running or waiting.
OfflineTryAgainWitness ==
    /\ session = "app" /\ currentView = "dashboard"
    /\ DashError(cache, marketParam)
    /\ ~isOnline
    /\ cache[MarketKey(marketParam)].st = "idle"

\* C21: a buy or sell answered with a 4xx other than 401 is reported by
\* the form with the detail the server sent, and the step invalidates and
\* changes nothing in the cache, so the holdings entry is as it was.
RejectedTradeReported ==
    [][\A m \in mutations, body \in {"detail", "plain"} :
          (m.op \in {"buy", "sell"} /\ MutationRejected(m, "4xx", body))
             => /\ cache' = cache
                /\ (m.own /\ body = "detail") => message' = "detail"
                /\ m.own => message' \in ErrorMessages]_vars

\* The form shows the server's detail, no request is left, and the
\* holdings fetched on the portfolio view are still the fresh ones.
RejectedTradeWitness ==
    /\ session = "app" /\ currentView = "trading"
    /\ message = "detail" /\ mutations = {}
    /\ cache["holdings"].data = "good" /\ ~cache["holdings"].inv

\* C22: the amount typed is what the tradeRequest carries, for buy and for
\* sell alike, and the estimate under the input reads it as USD for buy
\* (amount / current_price of the asset, to the nearest millionth) and as
\* a quantity for sell (amount * current_price in USD).
AmountAsymmetryKept ==
    /\ [](\A c \in selectedCrypto :
             (FormShown /\ amount # NoText) =>
                LET est == calculateEstimate(tradeType, amount, selectedCrypto)
                    a == amount[1]
                    back == est[1].value * c.current_price
                IN  /\ Len(est) = 1
                    /\ tradeType = "buy" =>
                          /\ est[1].unit = c.symbol
                          /\ 2 * (back - 1000000 * a) <= c.current_price
                          /\ 2 * (1000000 * a - back) < c.current_price
                    /\ tradeType = "sell" =>
                          /\ est[1].unit = "$"
                          /\ est[1].value = 100 * a * c.current_price)
    /\ [][handleSubmit =>
             /\ Len(tradeRequest') = 1
             /\ tradeRequest'[1].op = tradeType
             /\ tradeRequest'[1].symbol = selectedSymbol
             /\ <<tradeRequest'[1].amount>> = amount]_vars

\* A sell of 2 ETH has been submitted: the request carries 2 and the form
\* shows the estimate of $4.00.
SellEstimateWitness ==
    /\ FormShown /\ isLoading
    /\ tradeType = "sell" /\ selectedSymbol = "ETH" /\ amount = Text(2)
    /\ tradeRequest = <<[op |-> "sell", symbol |-> "ETH", amount |-> 2]>>
    /\ calculateEstimate(tradeType, amount, selectedCrypto)
          = <<[unit |-> "$", value |-> 400]>>

\* C23: a successful buy or sell invalidates every transactions entry in
\* the cache, the one of the filter on display and the one fetched under
\* the other filter alike.
TradeInvalidatesAllTransactions ==
    [][\A m \in mutations :
          (m.op \in {"buy", "sell"} /\ MutationSucceed(m))
             => \A k \in TxKeys : cache[k] # Absent => cache'[k].inv]_vars

\* After a trade the history shows the buy filter: its entry is being
\* refetched, and the entry of the unfiltered list, fetched before and no
\* longer shown, is marked invalidated as well.
AllTransactionsWitness ==
    /\ currentView = "trading" /\ filter = "BUY" /\ mutations = {}
    /\ message = "ok"
    /\ cache[TxKey("BUY")].inv /\ cache[TxKey("BUY")].st = "fetching"
    /\ cache[TxKey("")].inv /\ cache[TxKey("")].data = "good"
    /\ cache[TxKey("")].st = "idle"

\* The buy and sell requests of the mounted form that have not settled.
OwnTrades == {m \in mutations : OwnTrade(m)}

\* C24: the form has at most one buy or sell request in flight, a request
\* starts only from a form with a symbol and an amount that is not
\* waiting for another, and isLoading is true exactly while the form's
\* request is unsettled, so it is false again after success and failure.
OneTradeInFlight ==
    /\ [](Cardinality(OwnTrades) <= 1)
    /\ [](isLoading <=> OwnTrades # {})
    /\ [][(\E m \in mutations' \ mutations : m.op \in {"buy", "sell"})
             => (selectedSymbol # "" /\ amount # NoText /\ ~isLoading)]_vars

\* A submit has failed: the form is idle again with the amount still
\* typed in and the failure shown.
SubmitSettledWitness ==
    /\ FormShown /\ ~isLoading /\ mutations = {}
    /\ message \in ErrorMessages
    /\ amount # NoText /\ selectedSymbol # ""

\* ------------------------------------------------------------ authentication
\* The sign-in functions of AuthContext.
SignIns == {"login", "register"}

\* C25: when login() or register() fails, at the credential request or at
\* the current-user fetch after it, no auth_token is left in storage and
\* the user stays unset.
FailedSignInLeavesNoToken ==
    [][\A op \in SignIns, r \in ErrKinds :
          \A body \in ResponseBodies(r) :
             (credentialsSettle(op, r, body) \/ sessionUserSettles(op, r, body))
                => ~authToken' /\ ~user']_vars

\* C26: a rejected login, a 401 included, leaves LoginForm displayed with
\* isLoading false and error set to the server's detail or to the default
\* text; no page load starts that would discard them.
RejectedLoginShown ==
    [][\A r \in ErrKinds :
          \A body \in ResponseBodies(r) :
             (credentialsSettle("login", r, body) \/ sessionUserSettles("login", r, body))
                => /\ ~loginIsLoading'
                   /\ loginError' = loginErrorMessage(body)
                   /\ session' = "login"]_vars

\* C27: logout() ends with the token removed and the user unset whatever
\* the outcome of the server call, and its promise settles without a
\* rejection: no step of it is left pending.
LogoutAlwaysClears ==
    [][\A r \in Outcomes :
          logoutSettles(r) => ~authToken' /\ ~user' /\ authStep' = Idle]_vars

\* A user who was signed in (the dashboard's listing is still cached) is
\* back at the login form with neither token nor user.
LoggedOutWitness ==
    /\ session = "login" /\ ~authToken /\ ~user /\ authStep = Idle
    /\ \E k \in MarketKeys : cache[k].data # "none"

\* C28: initializeAuth ends on every path with isLoading false; while it
\* runs the user is set only by the success of the current-user fetch that
\* follows a validated token; and every failing path removes the stored
\* token.
InitializeAuthTerminates ==
    /\ authIsLoading ~> ~authIsLoading
    /\ [][(authStep[1] = "init" /\ user' # user) =>
            (authStep = <<"init", "user">> /\ initUserSettles("ok") /\ authToken')]_vars
    /\ [][\A r \in ErrKinds :
            (validateTokenSettles(r) \/ initUserSettles(r))
               => ~authToken' /\ ~user' /\ ~authIsLoading']_vars

\* initializeAuth found a stored token, validateToken answered true, and
\* the current-user fetch is in flight behind the spinner.
InitValidatedWitness ==
    /\ authStep = <<"init", "user">>
    /\ authIsLoading /\ authToken /\ ~user /\ session = "loading"

\* ------------------------------------------------------ watchlist and toasts
\* A sequence without a repeated element.
NoDuplicates(seq) == \A i, j \in DOMAIN seq : seq[i] = seq[j] => i = j

\* C29: every toast added through any useToast() instance is in the list
\* the ToastContainer renders until it is removed by id, and toast ids are
\* unique across the instances.
ToastsRendered ==
    /\ \A i \in ToastInstances : Range(toasts[i]) \subseteq Range(toasts["App"])
    /\ \A i \in ToastInstances : NoDuplicates(toasts[i])
    /\ \A i, j \in ToastInstances :
          i # j => Range(toasts[i]) \cap Range(toasts[j]) = {}

\* C30: while showOnlyWatchlist is on, every displayed cryptocurrency is in
\* the watchlist, whatever toggles came before; and the watchlist never
\* holds an id twice.
WatchlistOnlyShowsWatched ==
    /\ showOnlyWatchlist => Displayed \subseteq Range(watchlist)
    /\ NoDuplicates(watchlist)

====
